---- MODULE Spec2Model ----
(***************************************************************************)
(* Traversal core of the ArborX bounding-volume hierarchy                  *)
(* (src/details/ArborX_DetailsTreeTraversal.hpp): the spatial kernels      *)
(* (one-leaf, two-child stack, rope), the nearest kernel with its bounded  *)
(* max-heap over a caller-provided scratch view, the buffer provisioner    *)
(* and the dispatching constructors.                                       *)
(***************************************************************************)
EXTENDS Integers, Sequences, FiniteSets, TLC

\* ------------------------------------------------------------------ bounds
\* Largest distance value a bounding volume can be at (floats are modelled
\* by the naturals 0..MaxDist, +infinity by a value above all of them).
MaxDist == 2
\* Largest neighbour count k a nearest predicate asks for.
MaxK == 3

\* Leaf counts of the trees enumerated for one query run alone, and for a
\* batch of concurrent queries.
LeafCounts == 0 .. 4
BatchLeafCounts == 0 .. 3
\* Numbers of queries in a batch of concurrent queries, and their counts.
BatchSizes == {2, 3}
BatchK == -1 .. 2

\* --------------------------------------------------------------- constants
ROPE_SENTINEL == -1
nullptr == -2
StackCapacity == 64
Infinity == MaxDist + 1

Distances == 0 .. MaxDist
Tags == {"spatial", "nearest"}
NodeTags == {"NodeWithTwoChildrenTag", "NodeWithLeftChildAndRopeTag"}
\* The two compilations of the nearest kernel (lines 345, 406, 428); the
\* spatial kernels are the same in both.
Archs == {"host", "cuda"}

\* ------------------------------------------------------------ the BVH
\* A tree shape is the preorder listing of its nodes, TRUE for a leaf.
RECURSIVE CountIn(_, _, _, _)
CountIn(s, lo, hi, leaf) ==
  IF lo > hi THEN 0
  ELSE (IF s[lo] = leaf THEN 1 ELSE 0) + CountIn(s, lo + 1, hi, leaf)

\* Leaves minus internal nodes among s[lo..hi].
Excess(s, lo, hi) == CountIn(s, lo, hi, TRUE) - CountIn(s, lo, hi, FALSE)

IsShape(s) ==
  /\ Excess(s, 1, Len(s)) = 1
  /\ \A n \in 1 .. Len(s) - 1 : Excess(s, 1, n) <= 0

ShapesOf(n) ==
  IF n = 0 THEN {<<>>}
  ELSE {s \in [1 .. 2 * n - 1 -> BOOLEAN] : IsShape(s)}

\* Last preorder position of the subtree rooted at position p.
SubtreeEnd(s, p) ==
  CHOOSE q \in p .. Len(s) :
    /\ Excess(s, p, q) = 1
    /\ \A r \in p .. q - 1 : Excess(s, p, r) <= 0

\* Node identifiers: internal nodes first (the root is node 0), then leaves.
NodeId(s, p) ==
  IF s[p] THEN (Len(s) + 1) \div 2 - 1 + CountIn(s, 1, p - 1, TRUE)
  ELSE CountIn(s, 1, p - 1, FALSE)

PosOf(s, id) == CHOOSE p \in 1 .. Len(s) : NodeId(s, p) = id

\* Leaf permutation indices: the caller-space index of the primitive a leaf
\* holds, by the leaf's rank from the left (the leaves hold the primitives
\* in reverse order).
LeafOrder(n) == [r \in 0 .. n - 1 |-> n - 1 - r]

\* One node, in the encoding the tag names.
MakeNode(s, p, order, tag) ==
  LET leaf == s[p]
      e == SubtreeEnd(s, p)
      left == IF leaf THEN -1 ELSE NodeId(s, p + 1)
      right == IF leaf THEN -1 ELSE NodeId(s, SubtreeEnd(s, p + 1) + 1)
      rope == IF e = Len(s) THEN ROPE_SENTINEL ELSE NodeId(s, e + 1)
      index == IF leaf THEN order[CountIn(s, 1, p - 1, TRUE)] ELSE -1
  IN IF tag = "NodeWithTwoChildrenTag"
     THEN [is_leaf |-> leaf, left_child |-> left, right_child |-> right,
           leaf_index |-> index]
     ELSE [is_leaf |-> leaf, left_child |-> left, rope |-> rope,
           leaf_index |-> index]

MakeBVH(s, order, tag) ==
  [shape |-> s,
   order |-> order,
   tag |-> tag,
   size |-> (Len(s) + 1) \div 2,
   nodes |-> [id \in 0 .. Len(s) - 1 |-> MakeNode(s, PosOf(s, id), order, tag)]]

NodeIds(bvh) == DOMAIN bvh.nodes
LeafIds(bvh) == {id \in NodeIds(bvh) : bvh.nodes[id].is_leaf}

\* Children of an internal node of the logical tree, whatever the encoding.
ChildrenOf(bvh, id) ==
  LET p == PosOf(bvh.shape, id)
  IN IF bvh.shape[p] THEN {}
     ELSE {NodeId(bvh.shape, p + 1),
           NodeId(bvh.shape, SubtreeEnd(bvh.shape, p + 1) + 1)}

\* A predicate is nested when it holds on a parent wherever it holds on a child.
Nested(bvh, hit) ==
  \A id \in NodeIds(bvh) : \A c \in ChildrenOf(bvh, id) : hit[c] => hit[id]

\* A distance is monotone when a parent is never farther than its child.
Monotone(s, d) ==
  \A p \in 1 .. Len(s) :
    ~s[p] =>
      /\ d[NodeId(s, p)] <= d[NodeId(s, p + 1)]
      /\ d[NodeId(s, p)] <= d[NodeId(s, SubtreeEnd(s, p + 1) + 1)]

\* ------------------------------------------------- the bounded max-heap
\* PriorityQueue over an UnmanagedStaticVector: a binary max-heap stored in
\* the sequence h of pairs <<leaf index, distance>>, the farthest on top.
CompareDistance(lhs, rhs) == lhs[2] < rhs[2]

RECURSIVE bubbleUp(_, _, _)
bubbleUp(h, pos, val) ==
  IF pos > 1 /\ CompareDistance(h[pos \div 2], val)
  THEN bubbleUp([h EXCEPT ![pos] = h[pos \div 2]], pos \div 2, val)
  ELSE [h EXCEPT ![pos] = val]

RECURSIVE bubbleDown(_, _, _, _)
bubbleDown(h, pos, len, val) ==
  LET left == 2 * pos
      right == 2 * pos + 1
      child == IF right <= len /\ CompareDistance(h[left], h[right])
               THEN right ELSE left
  IN IF left <= len /\ CompareDistance(val, h[child])
     THEN bubbleDown([h EXCEPT ![pos] = h[child]], child, len, val)
     ELSE [h EXCEPT ![pos] = val]

push(h, x) == bubbleUp(Append(h, x), Len(h) + 1, x)

popPush(h, x) == bubbleDown(h, 1, Len(h), x)

top(h) == h[1]

\* popHeap on h[1..len]: the top goes to position len, the rest stays a heap.
popHeap(h, len) ==
  IF len <= 1 THEN h
  ELSE bubbleDown([h EXCEPT ![len] = h[1]], 1, len - 1, h[len])

RECURSIVE sortHeapFrom(_, _)
sortHeapFrom(h, len) ==
  IF len <= 1 THEN h ELSE sortHeapFrom(popHeap(h, len), len - 1)

sortHeap(h) == sortHeapFrom(h, Len(h))

\* ------------------------------------------------- the buffer provisioner
RECURSIVE SumTo(_, _)
SumTo(f, n) == IF n = 0 THEN 0 ELSE f[n - 1] + SumTo(f, n - 1)

\* exclusivePrefixSum over the n + 1 entries of v, in place.
exclusivePrefixSum(v, n) == [i \in 0 .. n |-> SumTo(v, i)]

lastElement(v, n) == v[n]

\* Contents of memory allocated without initializing.
Garbage == {<<-1, 0>>, <<-1, MaxDist>>}

\* BufferProvider::operator(): the index range of query i's subview.
ViewBegin(provider, i) == provider.offset_[i]
ViewEnd(provider, i) == provider.offset_[i + 1]
ViewOf(provider, i) == ViewBegin(provider, i) .. ViewEnd(provider, i) - 1
ViewSize(provider, i) == ViewEnd(provider, i) - ViewBegin(provider, i)

MinOf(S) == CHOOSE x \in S : \A y \in S : x <= y
MaxOf(S) == CHOOSE x \in S : \A y \in S : y <= x

\* allocateBuffer: offsets from the counts, then the flat buffer.  junk is
\* what the uninitialized last offset holds, g what the fresh buffer holds.
\* The cells outside 0 .. size - 1 are the memory next to the buffer, which
\* a view reaching outside of it lands on.
allocateBuffer(predicates, junk, g) ==
  LET n_queries == Cardinality(DOMAIN predicates)
      counts == [i \in 0 .. n_queries |->
                   IF i < n_queries THEN predicates[i].k ELSE junk]
      offset == exclusivePrefixSum(counts, n_queries)
      buffer_size == lastElement(offset, n_queries)
      ends == {offset[i] : i \in 0 .. n_queries} \cup {0, buffer_size}
  IN [offset_ |-> offset,
      size |-> buffer_size,
      buffer_ |-> [j \in MinOf(ends) .. MaxOf(ends) - 1 |-> g]]

NoBuffer == [offset_ |-> <<>>, size |-> 0, buffer_ |-> <<>>]

\* ------------------------------------------------------------- the state
VARIABLES
  bvh_,         \* the hierarchy traversed (read-only during a call)
  tag,          \* the predicates' tag: which TreeTraversal is instantiated
  arch,         \* what the kernel is compiled for: "host", or "cuda"
                \* (__CUDA_ARCH__ defined)
  predicates_,  \* the batch of predicates, by query index
  phase,        \* "call", "kernel" (the parallel_for runs), "returned", "failed"
  kernel,       \* the parallel_for launched: "none", "one_leaf", "general"
  buffer_,      \* the BufferProvider: offsets, flat scratch buffer
  local,        \* each task's local variables and position
  out,          \* each query's callback invocations, in order
  touched,      \* scratch cell -> the queries whose task accessed it
  visits,       \* each task's nodes expanded and bounding volumes evaluated
  previous      \* the callbacks of the call made on the two-child encoding

vars == <<bvh_, tag, arch, predicates_, phase, kernel, buffer_, local, out, touched,
          visits, previous>>

Queries == DOMAIN predicates_

IdleTask ==
  [pc |-> "idle", node |-> nullptr, stack |-> <<>>, stack_distance |-> <<>>,
   distance_node |-> 0, radius |-> Infinity, heap_size |-> 0,
   next |-> ROPE_SENTINEL, i |-> 0, ret |-> 0]

NoVisits == [expanded |-> <<>>, evaluated |-> <<>>, inserted |-> <<>>]

\* The accessors of the hierarchy and of the predicates.
getRoot == 0
isLeaf(node) == bvh_.nodes[node].is_leaf
getLeafPermutationIndex(node) == bvh_.nodes[node].leaf_index
getK(q) == predicates_[q].k
predicate(q, node) == predicates_[q].hit[node]
distance(q, node) == predicates_[q].d[node]

\* A variant of the pop that takes two entries off the stack.
Pop_Twice(stk) == SubSeq(stk, 1, Len(stk) - 2)

\* *--stack_ptr: the stack without its top, and its top.
Pop(stk) == SubSeq(stk, 1, Len(stk) - 1)
Top(stk) == stk[Len(stk)]

\* ------------------------------------------------------- the constructors
\* TreeTraversal's constructor: nothing on an empty tree, the one-leaf kernel
\* on a tree of one leaf, otherwise (nearest: after allocateBuffer) the
\* general kernel, one task per query.  A negative buffer size wraps to a
\* huge unsigned size: the allocation throws, or it returns a block that is
\* too small and the kernel is launched on it.
Traverse ==
  /\ phase = "call"
  /\ local' = [q \in Queries |-> IdleTask]
  /\ UNCHANGED <<bvh_, tag, arch, predicates_, out, visits, previous>>
  /\ IF bvh_.size = 0
     THEN /\ phase' = "returned"
          /\ kernel' = "none"
          /\ buffer_' = NoBuffer
     ELSE IF bvh_.size = 1
     THEN /\ phase' = "kernel"
          /\ kernel' = "one_leaf"
          /\ buffer_' = NoBuffer
     ELSE IF tag = "spatial"
     THEN /\ phase' = "kernel"
          /\ kernel' = "general"
          /\ buffer_' = NoBuffer
     ELSE \E junk \in {0, 1}, g \in Garbage, thrown \in BOOLEAN :
            LET provider == allocateBuffer(predicates_, junk, g)
            IN IF provider.size < 0 /\ thrown
               THEN /\ phase' = "failed"
                    /\ kernel' = "none"
                    /\ buffer_' = NoBuffer
               ELSE /\ phase' = "kernel"
                    /\ kernel' = "general"
                    /\ buffer_' = provider
  /\ touched' = [c \in DOMAIN buffer_'.buffer_ |-> {}]

\* The parallel_for ends when every task has.
Return ==
  /\ phase = "kernel"
  /\ \A q \in Queries : local[q].pc \in {"done", "fault"}
  /\ phase' = "returned"
  /\ UNCHANGED <<bvh_, tag, arch, predicates_, kernel, buffer_, local, out, touched,
                 visits, previous>>

\* ------------------------------------------------------ spatial kernels
\* A variant that reports the leaf without testing the predicate.
OneLeafHit_Always(q) == << <<0>> >>

\* The callback of the spatial one-leaf kernel (lines 84-87).
OneLeafHit(q) == IF predicate(q, getRoot) THEN << <<0>> >> ELSE <<>>

\* operator()(OneLeafTree, queryIndex)
SpatialOneLeaf(q) ==
  /\ phase = "kernel" /\ kernel = "one_leaf" /\ tag = "spatial"
  /\ local[q].pc = "idle"
  /\ local' = [local EXCEPT ![q].pc = "done"]
  /\ out' = [out EXCEPT ![q] = @ \o OneLeafHit(q)]
  /\ visits' = [visits EXCEPT ![q].evaluated = Append(@, getRoot)]
  /\ UNCHANGED <<bvh_, tag, arch, predicates_, phase, kernel, buffer_, touched,
                 previous>>

\* A variant reporting every leaf reached, whatever the predicate says of it.
LeafHit_Unchecked(overlap, child) ==
  IF isLeaf(child)
  THEN << <<getLeafPermutationIndex(child)>> >>
  ELSE <<>>

\* The callbacks of one child of the stack kernel (lines 109-116).
LeafHit(overlap, child) ==
  IF overlap /\ isLeaf(child)
  THEN << <<getLeafPermutationIndex(child)>> >>
  ELSE <<>>

\* A variant that descends into every internal child, rejected or not.
TraverseChild_Always(overlap, child) == ~isLeaf(child)

\* traverse_left, traverse_right (lines 118-119).
TraverseChild(overlap, child) == overlap /\ ~isLeaf(child)

\* A variant that descends to the left and forgets the right child.
NextSpatial_Forgets(stk, child_left, child_right, traverse_left, traverse_right) ==
  IF ~traverse_left /\ ~traverse_right
  THEN [node |-> Top(stk), stack |-> Pop(stk)]
  ELSE [node |-> IF traverse_left THEN child_left ELSE child_right,
        stack |-> stk]

\* The next node and the stack after the children are tested (lines 121-130).
NextSpatial(stk, child_left, child_right, traverse_left, traverse_right) ==
  IF ~traverse_left /\ ~traverse_right
  THEN [node |-> Top(stk), stack |-> Pop(stk)]
  ELSE [node |-> IF traverse_left THEN child_left ELSE child_right,
        stack |-> IF traverse_left /\ traverse_right
                  THEN Append(stk, child_right) ELSE stk]

\* Stack-based traversal: the sentinel is pushed, node is the root.
SpatialStackBegin(q) ==
  /\ phase = "kernel" /\ kernel = "general" /\ tag = "spatial"
  /\ bvh_.tag = "NodeWithTwoChildrenTag"
  /\ local[q].pc = "idle"
  /\ local' = [local EXCEPT ![q] =
                 [@ EXCEPT !.pc = "loop", !.stack = <<nullptr>>,
                           !.node = getRoot]]
  /\ UNCHANGED <<bvh_, tag, arch, predicates_, phase, kernel, buffer_, out, touched,
                 visits, previous>>

\* One iteration of the do-while loop of the stack-based traversal.
SpatialStackIterate(q) ==
  /\ phase = "kernel" /\ kernel = "general" /\ tag = "spatial"
  /\ bvh_.tag = "NodeWithTwoChildrenTag"
  /\ local[q].pc = "loop"
  /\ LET node == local[q].node
         child_left == bvh_.nodes[node].left_child
         child_right == bvh_.nodes[node].right_child
         overlap_left == predicate(q, child_left)
         overlap_right == predicate(q, child_right)
         nxt == NextSpatial(local[q].stack, child_left, child_right,
                            TraverseChild(overlap_left, child_left),
                            TraverseChild(overlap_right, child_right))
     IN /\ out' = [out EXCEPT ![q] = @ \o LeafHit(overlap_left, child_left)
                                       \o LeafHit(overlap_right, child_right)]
        /\ local' = [local EXCEPT ![q] =
                       [@ EXCEPT !.node = nxt.node, !.stack = nxt.stack,
                                 !.pc = IF nxt.node # nullptr
                                        THEN "loop" ELSE "done"]]
        /\ visits' = [visits EXCEPT
                        ![q].expanded = Append(@, node),
                        ![q].evaluated = @ \o <<child_left, child_right>>]
  /\ UNCHANGED <<bvh_, tag, arch, predicates_, phase, kernel, buffer_, touched,
                 previous>>

\* A variant whose last rope leads back to the root instead of ending.
NextRope_Restarts(overlap, node) ==
  IF overlap /\ ~isLeaf(node)
  THEN bvh_.nodes[node].left_child
  ELSE IF bvh_.nodes[node].rope = ROPE_SENTINEL /\ node # getRoot
       THEN getRoot
       ELSE bvh_.nodes[node].rope

\* The next node of the ropes-based traversal (lines 148-163).
NextRope(overlap, node) ==
  IF overlap /\ ~isLeaf(node)
  THEN bvh_.nodes[node].left_child
  ELSE bvh_.nodes[node].rope

\* A variant reporting the node's identifier instead of its leaf index.
RopeHit_NodeId(overlap, node) ==
  IF overlap /\ isLeaf(node) THEN << <<node>> >> ELSE <<>>

\* The callback of the ropes-based traversal (lines 148-158).
RopeHit(overlap, node) ==
  IF overlap /\ isLeaf(node)
  THEN << <<getLeafPermutationIndex(node)>> >>
  ELSE <<>>

\* Ropes-based traversal: next starts at the root.
SpatialRopeBegin(q) ==
  /\ phase = "kernel" /\ kernel = "general" /\ tag = "spatial"
  /\ bvh_.tag = "NodeWithLeftChildAndRopeTag"
  /\ local[q].pc = "idle"
  /\ local' = [local EXCEPT ![q] = [@ EXCEPT !.pc = "loop", !.next = 0]]
  /\ UNCHANGED <<bvh_, tag, arch, predicates_, phase, kernel, buffer_, out, touched,
                 visits, previous>>

\* One iteration of the do-while loop of the ropes-based traversal.
SpatialRopeIterate(q) ==
  /\ phase = "kernel" /\ kernel = "general" /\ tag = "spatial"
  /\ bvh_.tag = "NodeWithLeftChildAndRopeTag"
  /\ local[q].pc = "loop"
  /\ LET node == local[q].next
         overlap == predicate(q, node)
         next == NextRope(overlap, node)
     IN /\ out' = [out EXCEPT ![q] = @ \o RopeHit(overlap, node)]
        /\ local' = [local EXCEPT ![q] =
                       [@ EXCEPT !.node = node, !.next = next,
                                 !.pc = IF next # ROPE_SENTINEL
                                        THEN "loop" ELSE "done"]]
        /\ visits' = [visits EXCEPT
                        ![q].expanded =
                          IF overlap /\ ~isLeaf(node) THEN Append(@, node) ELSE @,
                        ![q].evaluated = Append(@, node)]
  /\ UNCHANGED <<bvh_, tag, arch, predicates_, phase, kernel, buffer_, touched,
                 previous>>

\* ------------------------------------------------------- nearest kernel
\* A variant of the early return that lets k = 0 through.
OneLeafNoNeighbors_Negative(k) == k < 0

\* The early return of the nearest one-leaf kernel (line 275).
OneLeafNoNeighbors(k) == k < 1

\* The early return of the nearest kernel (line 310).
NoNeighbors(k) == k < 1

\* operator()(OneLeafTree, queryIndex)
NearestOneLeaf(q) ==
  /\ phase = "kernel" /\ kernel = "one_leaf" /\ tag = "nearest"
  /\ local[q].pc = "idle"
  /\ IF OneLeafNoNeighbors(getK(q))
     THEN /\ local' = [local EXCEPT ![q] = [@ EXCEPT !.pc = "done", !.ret = 0]]
          /\ UNCHANGED <<out, visits>>
     ELSE /\ local' = [local EXCEPT ![q] = [@ EXCEPT !.pc = "done", !.ret = 1]]
          /\ out' = [out EXCEPT ![q] = Append(@, <<0, distance(q, getRoot)>>)]
          /\ visits' = [visits EXCEPT ![q].evaluated = Append(@, getRoot)]
  /\ UNCHANGED <<bvh_, tag, arch, predicates_, phase, kernel, buffer_, touched,
                 previous>>

getRightChild(node) ==
  IF bvh_.tag = "NodeWithTwoChildrenTag"
  THEN bvh_.nodes[node].right_child
  ELSE bvh_.nodes[bvh_.nodes[node].left_child].rope

\* The heap of query q: the first size cells of its view of the buffer.
HeapOf(provider, q, size) ==
  [j \in 1 .. size |-> provider.buffer_[ViewBegin(provider, q) + j - 1]]

HeapCells(provider, q, size) ==
  ViewBegin(provider, q) .. ViewBegin(provider, q) + size - 1

\* A variant in which the heap's writes never reach the buffer.
StoreHeap_Nothing(provider, q, h) == provider

\* The buffer after the heap h of query q is written to its view.
StoreHeap(provider, q, h) ==
  [provider EXCEPT !.buffer_ =
     [c \in DOMAIN @ |->
        IF c \in HeapCells(provider, q, Len(h))
        THEN h[c - ViewBegin(provider, q) + 1] ELSE @[c]]]

\* A variant that takes the distance of the leaf just inserted as radius.
Candidate_RadiusOfLast(st, child, dist, k) ==
  IF dist < st.radius /\ isLeaf(child)
  THEN LET leaf_pair == <<getLeafPermutationIndex(child), dist>>
           h == IF Len(st.heap) < k
                THEN push(st.heap, leaf_pair)
                ELSE popPush(st.heap, leaf_pair)
       IN [heap |-> h,
           radius |-> IF Len(h) = k THEN dist ELSE st.radius]
  ELSE st

\* A variant that tightens the radius at every insertion, full heap or not.
Candidate_EagerRadius(st, child, dist, k) ==
  IF dist < st.radius /\ isLeaf(child)
  THEN LET leaf_pair == <<getLeafPermutationIndex(child), dist>>
           h == IF Len(st.heap) < k
                THEN push(st.heap, leaf_pair)
                ELSE popPush(st.heap, leaf_pair)
       IN [heap |-> h, radius |-> top(h)[2]]
  ELSE st

\* A variant that also admits a leaf at exactly the radius.
Candidate_NotStrict(st, child, dist, k) ==
  IF dist <= st.radius /\ dist < Infinity /\ isLeaf(child)
  THEN LET leaf_pair == <<getLeafPermutationIndex(child), dist>>
           h == IF Len(st.heap) < k
                THEN push(st.heap, leaf_pair)
                ELSE popPush(st.heap, leaf_pair)
       IN [heap |-> h,
           radius |-> IF Len(h) = k THEN top(h)[2] ELSE st.radius]
  ELSE st

\* A variant that pushes every candidate, full heap or not.
Candidate_AlwaysPush(st, child, dist, k) ==
  IF dist < st.radius /\ isLeaf(child)
  THEN LET h == push(st.heap, <<getLeafPermutationIndex(child), dist>>)
       IN [heap |-> h,
           radius |-> IF Len(h) = k THEN top(h)[2] ELSE st.radius]
  ELSE st

\* A child tested as a candidate (lines 374-384 and 387-397): st holds the
\* heap and the radius, the result holds them after the test.
Candidate(st, child, dist, k) ==
  IF dist < st.radius /\ isLeaf(child)
  THEN LET leaf_pair == <<getLeafPermutationIndex(child), dist>>
           h == IF Len(st.heap) < k
                THEN push(st.heap, leaf_pair)
                ELSE popPush(st.heap, leaf_pair)
       IN [heap |-> h,
           radius |-> IF Len(h) = k THEN top(h)[2] ELSE st.radius]
  ELSE st

\* What an insertion found: the radius, the k-th distance and the size of
\* the heap it was made into, and whether it was a push, which grows the
\* heap, or a popPush (before is the heap and radius at the test, after the
\* result of the test).
Insertion(before, after, child, dist, k) ==
  IF after.heap # before.heap
  THEN << [leaf |-> child, dist |-> dist, radius |-> before.radius,
           kth |-> IF Len(before.heap) = k THEN top(before.heap)[2]
                   ELSE Infinity,
           size |-> Len(before.heap),
           pushed |-> Len(after.heap) = Len(before.heap) + 1] >>
  ELSE <<>>

\* A variant that descends into any child within the radius, leaf or not.
TraverseNearer_Leaves(dist, radius, child) == dist < radius

\* traverse_left, traverse_right (lines 399-400).
TraverseNearer(dist, radius, child) == dist < radius /\ ~isLeaf(child)

\* A variant that takes a popped node to be at distance zero.
PoppedDistance_Zero(a, q, l) == 0

\* The distance of the node popped (lines 405-416): read from
\* stack_distance, or with __CUDA_ARCH__ computed again unless the node is
\* the sentinel.
PoppedDistance(a, q, l) ==
  IF a = "cuda"
  THEN IF Top(l.stack) # nullptr
       THEN distance(q, Top(l.stack)) ELSE l.distance_node
  ELSE Top(l.stack_distance)

\* A variant that descends to the left child whenever it qualifies.
NextNearest_LeftFirst(a, q, l, child_left, child_right, distance_left, distance_right, traverse_left, traverse_right) ==
  IF ~traverse_left /\ ~traverse_right
  THEN [node |-> Top(l.stack), stack |-> Pop(l.stack),
        distance_node |-> PoppedDistance(a, q, l),
        stack_distance |-> IF a = "cuda" THEN l.stack_distance
                           ELSE Pop(l.stack_distance)]
  ELSE LET node == IF traverse_left THEN child_left ELSE child_right
           both == traverse_left /\ traverse_right
       IN [node |-> node,
           distance_node |-> IF node = child_left
                             THEN distance_left ELSE distance_right,
           stack |-> IF both THEN Append(l.stack, child_right) ELSE l.stack,
           stack_distance |-> IF both /\ a # "cuda"
                              THEN Append(l.stack_distance, distance_right)
                              ELSE l.stack_distance]

\* The next node, its distance and the stacks (lines 403-433).
NextNearest(a, q, l, child_left, child_right, distance_left, distance_right, traverse_left, traverse_right) ==
  IF ~traverse_left /\ ~traverse_right
  THEN [node |-> Top(l.stack), stack |-> Pop(l.stack),
        distance_node |-> PoppedDistance(a, q, l),
        stack_distance |-> IF a = "cuda" THEN l.stack_distance
                           ELSE Pop(l.stack_distance)]
  ELSE LET node == IF traverse_left
                      /\ (distance_left <= distance_right \/ ~traverse_right)
                   THEN child_left ELSE child_right
           both == traverse_left /\ traverse_right
       IN [node |-> node,
           distance_node |-> IF node = child_left
                             THEN distance_left ELSE distance_right,
           stack |-> IF both
                     THEN Append(l.stack, IF node = child_left
                                          THEN child_right ELSE child_left)
                     ELSE l.stack,
           stack_distance |-> IF both /\ a # "cuda"
                              THEN Append(l.stack_distance,
                                          IF node = child_left
                                          THEN distance_right ELSE distance_left)
                              ELSE l.stack_distance]

\* One iteration of the do-while loop (lines 359-434) on the locals l and
\* the heap h, followed by sortHeap when it is the last one (line 439).
NearestStepOn(a, q, l, h) ==
  LET k == getK(q)
      open == l.distance_node < l.radius
      child_left == bvh_.nodes[l.node].left_child
      child_right == getRightChild(l.node)
      distance_left == distance(q, child_left)
      distance_right == distance(q, child_right)
      st0 == [heap |-> h, radius |-> l.radius]
      After(st1, st2) ==
        LET traverse_left ==
              open /\ TraverseNearer(distance_left, st2.radius, child_left)
            traverse_right ==
              open /\ TraverseNearer(distance_right, st2.radius, child_right)
            nxt == NextNearest(a, q, l, child_left, child_right, distance_left,
                               distance_right, traverse_left,
                               traverse_right)
            last == nxt.node = nullptr
        IN [local |-> [l EXCEPT !.node = nxt.node,
                                !.distance_node = nxt.distance_node,
                                !.stack = nxt.stack,
                                !.stack_distance = nxt.stack_distance,
                                !.radius = st2.radius,
                                !.heap_size = Len(st2.heap),
                                !.i = 0,
                                !.ret = IF last /\ Len(st2.heap) = 0 THEN 0 ELSE @,
                                !.pc = IF ~last THEN "loop"
                                       ELSE IF Len(st2.heap) = 0 THEN "done"
                                       ELSE "emit"],
            heap |-> IF last THEN sortHeap(st2.heap) ELSE st2.heap,
            wrote |-> last \/ st2.heap # h,
            expanded |-> IF open THEN <<l.node>> ELSE <<>>,
            evaluated |-> IF open THEN <<child_left, child_right>> ELSE <<>>,
            inserted |-> Insertion(st0, st1, child_left, distance_left, k)
                         \o Insertion(st1, st2, child_right, distance_right, k)]
      \* the left child is tested first, the right child against the radius
      \* the left one may have tightened
      Left == {IF open THEN Candidate(st0, child_left, distance_left, k) ELSE st0}
      Right == {<<st1, IF open THEN Candidate(st1, child_right, distance_right, k)
                               ELSE st1>> : st1 \in Left}
  IN CHOOSE step \in {After(st[1], st[2]) : st \in Right} : TRUE

\* The iteration of the kernel as compiled.
NearestStep(q, l, h) == NearestStepOn(arch, q, l, h)

\* The locals at the top of the loop (lines 316-357).
NearestLocalsOn(a) ==
  [IdleTask EXCEPT !.pc = "loop", !.radius = Infinity,
                   !.stack = <<nullptr>>,
                   !.stack_distance = IF a = "cuda" THEN <<>> ELSE <<0>>,
                   !.node = getRoot, !.distance_node = 0]

NearestLocals == NearestLocalsOn(arch)

\* operator()(queryIndex) up to the loop: the view, the k < 1 return.
NearestBegin(q) ==
  /\ phase = "kernel" /\ kernel = "general" /\ tag = "nearest"
  /\ local[q].pc = "idle"
  /\ local' = [local EXCEPT ![q] =
                 IF NoNeighbors(getK(q))
                 THEN [@ EXCEPT !.pc = "done", !.ret = 0]
                 ELSE NearestLocals]
  /\ UNCHANGED <<bvh_, tag, arch, predicates_, phase, kernel, buffer_, out, touched,
                 visits, previous>>

NearestIterate(q) ==
  /\ phase = "kernel" /\ kernel = "general" /\ tag = "nearest"
  /\ local[q].pc = "loop"
  /\ \E step \in {NearestStep(q, local[q],
                               HeapOf(buffer_, q, local[q].heap_size))} :
        /\ local' = [local EXCEPT ![q] = step.local]
        /\ buffer_' = StoreHeap(buffer_, q, step.heap)
        /\ touched' = [c \in DOMAIN touched |->
                         IF step.wrote /\ c \in HeapCells(buffer_, q, Len(step.heap))
                         THEN touched[c] \cup {q} ELSE touched[c]]
        /\ visits' = [visits EXCEPT
                        ![q].expanded = @ \o step.expanded,
                        ![q].evaluated = @ \o step.evaluated,
                        ![q].inserted = @ \o step.inserted]
  /\ UNCHANGED <<bvh_, tag, arch, predicates_, phase, kernel, out, previous>>

\* A variant reading the sorted entries from the last to the first.
EmitIndex_Backwards(i, size) == size - 1 - i

\* A variant of the loop condition that stops one entry early.
EmitContinues_Short(i, size) == i < size - 1

\* The entry the output loop reads in its iteration i (lines 442-443).
EmitIndex(i, size) == i

\* The condition of the output loop (line 440).
EmitContinues(i, size) == i < size

\* One iteration of the output loop (lines 440-446).
NearestEmit(q) ==
  /\ phase = "kernel" /\ kernel = "general" /\ tag = "nearest"
  /\ local[q].pc = "emit"
  /\ LET l == local[q]
         cell == ViewBegin(buffer_, q) + EmitIndex(l.i, l.heap_size)
         leaf_index == buffer_.buffer_[cell][1]
         leaf_distance == buffer_.buffer_[cell][2]
     IN /\ out' = [out EXCEPT ![q] = Append(@, <<leaf_index, leaf_distance>>)]
        /\ local' = [local EXCEPT ![q] =
                       IF EmitContinues(l.i + 1, l.heap_size)
                       THEN [@ EXCEPT !.i = l.i + 1]
                       ELSE [@ EXCEPT !.i = l.i + 1, !.pc = "done",
                                      !.ret = l.heap_size]]
        /\ touched' = [touched EXCEPT ![cell] = @ \cup {q}]
  /\ UNCHANGED <<bvh_, tag, arch, predicates_, phase, kernel, buffer_, visits,
                 previous>>

\* A task whose view reaches outside the buffer may also end abnormally.
Fault(q) ==
  /\ phase = "kernel" /\ kernel = "general" /\ tag = "nearest"
  /\ local[q].pc \in {"loop", "emit"}
  /\ ~(ViewOf(buffer_, q) \subseteq 0 .. buffer_.size - 1)
  /\ local' = [local EXCEPT ![q].pc = "fault"]
  /\ UNCHANGED <<bvh_, tag, arch, predicates_, phase, kernel, buffer_, out, touched,
                 visits, previous>>

\* ------------------------------------------------- both encodings in turn
\* The same logical tree and the same predicates traversed again, the tree
\* now encoded with a left child and a rope per node.
Rerun ==
  /\ phase = "returned"
  /\ bvh_.tag = "NodeWithTwoChildrenTag"
  /\ previous' = out
  /\ bvh_' = MakeBVH(bvh_.shape, bvh_.order, "NodeWithLeftChildAndRopeTag")
  /\ phase' = "call"
  /\ kernel' = "none"
  /\ buffer_' = NoBuffer
  /\ local' = [q \in Queries |-> IdleTask]
  /\ out' = [q \in Queries |-> <<>>]
  /\ touched' = <<>>
  /\ visits' = [q \in Queries |-> NoVisits]
  /\ UNCHANGED <<tag, arch, predicates_>>

\* ------------------------------------------------------------ the inputs
SpatialPredicates(s) ==
  {[hit |-> h] : h \in [0 .. Len(s) - 1 -> BOOLEAN]}

NearestPredicates(s, ks) ==
  {[k |-> k, d |-> d] :
     k \in ks, d \in {f \in [0 .. Len(s) - 1 -> Distances] : Monotone(s, f)}}

\* Leaves at the points 0, 1, ... of a line in their order from the left, a
\* node's volume the interval its leaves span: the distance of point g to it.
LineDistance(s, g) ==
  [id \in 0 .. Len(s) - 1 |->
     LET p == PosOf(s, id)
         lo == CountIn(s, 1, p - 1, TRUE)
         hi == CountIn(s, 1, SubtreeEnd(s, p), TRUE) - 1
     IN IF g < lo THEN lo - g ELSE IF g > hi THEN g - hi ELSE 0]

LinePredicates(s, ks) ==
  {[k |-> k, d |-> LineDistance(s, g)] :
     k \in ks, g \in {0, (Len(s) + 1) \div 2 - 1}}

\* On the same line, whether the interval a .. b overlaps a node's volume.
LineOverlap(s, a, b) ==
  [id \in 0 .. Len(s) - 1 |->
     LET p == PosOf(s, id)
         lo == CountIn(s, 1, p - 1, TRUE)
         hi == CountIn(s, 1, SubtreeEnd(s, p), TRUE) - 1
     IN lo <= b /\ a <= hi]

LineBoxes(s) ==
  {[hit |-> LineOverlap(s, box[1], box[2])] :
     box \in {<<0, 0>>, <<1, (Len(s) + 1) \div 2>>, <<1, 0>>}}

Start(bvh, t, a, preds) ==
  /\ bvh_ = bvh
  /\ tag = t
  /\ arch = a
  /\ predicates_ = preds
  /\ phase = "call"
  /\ kernel = "none"
  /\ buffer_ = NoBuffer
  /\ local = [q \in DOMAIN preds |-> IdleTask]
  /\ out = [q \in DOMAIN preds |-> <<>>]
  /\ touched = <<>>
  /\ visits = [q \in DOMAIN preds |-> NoVisits]
  /\ previous = <<>>

\* One query on every tree of LeafCounts leaves, spatial or nearest.
Init ==
  \E n \in LeafCounts :
    \E s \in ShapesOf(n), t \in Tags :
      \E p \in IF t = "spatial" THEN SpatialPredicates(s)
                                ELSE NearestPredicates(s, -1 .. MaxK),
         a \in IF t = "spatial" THEN {"host"} ELSE Archs :
        Start(MakeBVH(s, LeafOrder(n), "NodeWithTwoChildrenTag"), t, a, [q \in {0} |-> p])

\* A batch of queries run concurrently on one tree, in either encoding.
InitBatch ==
  \E n \in BatchLeafCounts, nq \in BatchSizes :
    \E s \in ShapesOf(n), nt \in NodeTags, t \in Tags :
      \E preds \in [0 .. nq - 1 -> IF t = "spatial" THEN LineBoxes(s)
                                   ELSE LinePredicates(s, BatchK)] :
        Start(MakeBVH(s, LeafOrder(n), nt), t, "host", preds)

Next ==
  \/ Traverse
  \/ \E q \in Queries : SpatialOneLeaf(q)
  \/ \E q \in Queries : SpatialStackBegin(q)
  \/ \E q \in Queries : SpatialStackIterate(q)
  \/ \E q \in Queries : SpatialRopeBegin(q)
  \/ \E q \in Queries : SpatialRopeIterate(q)
  \/ \E q \in Queries : NearestOneLeaf(q)
  \/ \E q \in Queries : NearestBegin(q)
  \/ \E q \in Queries : NearestIterate(q)
  \/ \E q \in Queries : NearestEmit(q)
  \/ Return
  \/ Rerun

NextBatch ==
  \/ Traverse
  \/ \E q \in Queries : SpatialOneLeaf(q)
  \/ \E q \in Queries : SpatialStackBegin(q)
  \/ \E q \in Queries : SpatialStackIterate(q)
  \/ \E q \in Queries : SpatialRopeBegin(q)
  \/ \E q \in Queries : SpatialRopeIterate(q)
  \/ \E q \in Queries : NearestOneLeaf(q)
  \/ \E q \in Queries : NearestBegin(q)
  \/ \E q \in Queries : NearestIterate(q)
  \/ \E q \in Queries : NearestEmit(q)
  \/ \E q \in Queries : Fault(q)
  \/ Return

Spec == Init /\ [][Next]_vars

\* A task runs to completion without yielding or waiting: a loop iteration
\* that can be taken is taken.
TaskStep ==
  \E q \in Queries :
    \/ SpatialStackIterate(q)
    \/ SpatialRopeIterate(q)
    \/ NearestIterate(q)
    \/ NearestEmit(q)

SpecLive == Init /\ [][Next]_vars /\ WF_vars(TaskStep)

SpecBatch == InitBatch /\ [][NextBatch]_vars

\* ---------------------------------------------------------- properties
Occurrences(seq, x) == Cardinality({j \in DOMAIN seq : seq[j] = x})

Min(a, b) == IF a < b THEN a ELSE b

Finished(q) == local[q].pc = "done"

GeneralSpatial == tag = "spatial" /\ kernel = "general"
GeneralNearest == tag = "nearest" /\ kernel = "general"

TwoChildren == bvh_.tag = "NodeWithTwoChildrenTag"
Ropes == bvh_.tag = "NodeWithLeftChildAndRopeTag"

\* C1. Spatial completeness: on a tree of at least two leaves and for a
\* nested predicate, when the stack kernel or the rope kernel of a query has
\* finished, every leaf whose volume satisfies the predicate has had the
\* callback invoked exactly once with its leaf index.
C1_SpatialCompleteness ==
  GeneralSpatial =>
    \A q \in Queries :
      (Finished(q) /\ Nested(bvh_, predicates_[q].hit)) =>
        \A leaf \in LeafIds(bvh_) :
          predicate(q, leaf) =>
            Occurrences(out[q], <<getLeafPermutationIndex(leaf)>>) = 1

\* The rope kernel has finished after the stack kernel did, on a nested
\* predicate that accepts two leaves or more and rejects another.
C1_Witness ==
  /\ GeneralSpatial /\ Ropes
  /\ Finished(0)
  /\ Nested(bvh_, predicates_[0].hit)
  /\ Len(out[0]) >= 2 /\ Len(previous[0]) >= 2
  /\ \E leaf \in LeafIds(bvh_) : ~predicate(0, leaf)

\* C2. Spatial soundness: in every state of a spatial query (one-leaf, stack
\* and rope kernels), each callback invocation carries the leaf index of a
\* leaf of the tree whose volume satisfies the predicate.
C2_SpatialSoundness ==
  tag = "spatial" =>
    \A q \in Queries :
      \A j \in DOMAIN out[q] :
        \E leaf \in LeafIds(bvh_) :
          /\ out[q][j] = <<getLeafPermutationIndex(leaf)>>
          /\ predicate(q, leaf)

\* A leaf was reported while another leaf is rejected and an internal node
\* other than the root is accepted.
C2_Witness ==
  /\ tag = "spatial"
  /\ Len(out[0]) >= 1
  /\ \E leaf \in LeafIds(bvh_) : ~predicate(0, leaf)
  /\ \E id \in NodeIds(bvh_) \ LeafIds(bvh_) : id # getRoot /\ predicate(0, id)

\* The number of leaves at distance v among the m nearest leaves of query q.
LeavesAt(q, v) == Cardinality({leaf \in LeafIds(bvh_) : distance(q, leaf) = v})
LeavesBelow(q, v) == Cardinality({leaf \in LeafIds(bvh_) : distance(q, leaf) < v})
ExpectedAt(q, v, m) ==
  IF m - LeavesBelow(q, v) <= 0 THEN 0 ELSE Min(LeavesAt(q, v), m - LeavesBelow(q, v))

EmittedAt(q, v) == Cardinality({j \in DOMAIN out[q] : out[q][j][2] = v})

\* C3. Nearest correctness: on a tree of at least two leaves, for a monotone
\* distance and k >= 1, when the nearest kernel has finished the distances
\* emitted are, as a multiset, the min(k, N) smallest leaf distances, every
\* emitted pair is a leaf of the tree with its distance, and no leaf is
\* emitted twice.
C3_NearestCorrectness ==
  GeneralNearest =>
    \A q \in Queries :
      (Finished(q) /\ getK(q) >= 1 /\ Monotone(bvh_.shape, predicates_[q].d)) =>
        /\ \A v \in Distances :
             EmittedAt(q, v) = ExpectedAt(q, v, Min(getK(q), bvh_.size))
        /\ \A j \in DOMAIN out[q] :
             \E leaf \in LeafIds(bvh_) :
               out[q][j] = <<getLeafPermutationIndex(leaf), distance(q, leaf)>>
        /\ \A i, j \in DOMAIN out[q] : i # j => out[q][i][1] # out[q][j][1]

\* A query for fewer neighbours than leaves has finished on a tree where a
\* leaf is as far as the farthest neighbour kept and yet left out, and where
\* a whole subtree was pruned without being expanded.
C3_Witness ==
  /\ GeneralNearest
  /\ Finished(0)
  /\ getK(0) >= 2 /\ getK(0) < bvh_.size
  /\ Len(out[0]) = getK(0)
  /\ \E leaf \in LeafIds(bvh_) :
       /\ distance(0, leaf) = out[0][Len(out[0])][2]
       /\ \A j \in DOMAIN out[0] : out[0][j][1] # getLeafPermutationIndex(leaf)
  /\ \E id \in NodeIds(bvh_) \ LeafIds(bvh_) :
       \A j \in DOMAIN visits[0].expanded : visits[0].expanded[j] # id

\* C4. Nearest cardinality: on a tree of at least one leaf and for k >= 1, a
\* finished nearest query (one-leaf or general kernel) has invoked the
\* callback exactly min(k, N) times, and has returned that number.
C4_NearestCardinality ==
  (tag = "nearest" /\ kernel \in {"one_leaf", "general"}) =>
    \A q \in Queries :
      (Finished(q) /\ getK(q) >= 1) =>
        /\ Len(out[q]) = Min(getK(q), bvh_.size)
        /\ local[q].ret = Len(out[q])

\* A query for more neighbours than the tree has leaves has finished.
C4_Witness ==
  /\ GeneralNearest
  /\ Finished(0)
  /\ getK(0) > bvh_.size
  /\ Len(out[0]) = bvh_.size
  /\ bvh_.size >= 2

\* C5. Nearest ordering: within a nearest query no callback is made before
\* the traversal loop has ended, and the distances emitted are in
\* nondecreasing order.
C5_NearestOrdering ==
  GeneralNearest =>
    \A q \in Queries :
      /\ local[q].pc \in {"idle", "loop"} => out[q] = <<>>
      /\ \A j \in 1 .. Len(out[q]) - 1 : out[q][j][2] <= out[q][j + 1][2]

\* Three neighbours at two different distances have been emitted by a query
\* whose heap was reordered during the traversal.
C5_Witness ==
  /\ GeneralNearest
  /\ Finished(0)
  /\ Len(out[0]) >= 3
  /\ out[0][1][2] < out[0][Len(out[0])][2]
  /\ \E j \in 1 .. Len(visits[0].evaluated) - 1 :
       /\ isLeaf(visits[0].evaluated[j]) /\ isLeaf(visits[0].evaluated[j + 1])
       /\ distance(0, visits[0].evaluated[j]) > distance(0, visits[0].evaluated[j + 1])

SameBag(a, b) ==
  \A x \in {a[j] : j \in DOMAIN a} \cup {b[j] : j \in DOMAIN b} :
    Occurrences(a, x) = Occurrences(b, x)

AllFinished == \A q \in Queries : Finished(q)

\* The original statement of C6: the two encodings of a tree give the same
\* multiset of spatial hits and the same list of nearest neighbours for any
\* predicate.
C6_AnyPredicate ==
  (Ropes /\ kernel = "general" /\ AllFinished) =>
    \A q \in Queries :
      IF tag = "spatial"
      THEN SameBag(out[q], previous[q])
      ELSE out[q] = previous[q]

\* C6. Encoding equivalence: for the same tree of at least two leaves encoded
\* with two children and with a left child and a rope, the spatial kernels
\* emit the same multiset of leaf indices for any nested predicate, and the
\* nearest kernel emits the same ordered list of (leaf index, distance).
C6_EncodingEquivalence ==
  (Ropes /\ kernel = "general" /\ AllFinished) =>
    \A q \in Queries :
      IF tag = "spatial"
      THEN Nested(bvh_, predicates_[q].hit) => SameBag(out[q], previous[q])
      ELSE out[q] = previous[q]

\* The nearest kernel has finished on the rope encoding after expanding
\* every internal node of a tree of four leaves, two of its neighbours at
\* the same distance.
C6_Witness ==
  /\ Ropes /\ GeneralNearest /\ AllFinished
  /\ bvh_.size = 4
  /\ Len(visits[0].expanded) = 3
  /\ Len(out[0]) >= 2
  /\ out[0][1][2] = out[0][2][2]
  /\ out[0] = previous[0]

\* C7. Scratch partitioning: once allocateBuffer has run, the offsets are
\* the exclusive prefix sum of the counts, the buffer has length offset[Q],
\* and the view of query i has length k_i, lies inside the buffer and is
\* disjoint from the view of every other query.
C7_ScratchPartitioning ==
  (GeneralNearest /\ phase = "kernel") =>
    LET nq == Cardinality(Queries)
    IN /\ \A i \in 0 .. nq :
            buffer_.offset_[i] = SumTo([q \in Queries |-> getK(q)], i)
       /\ buffer_.size = buffer_.offset_[nq]
       /\ \A i \in Queries :
            /\ ViewSize(buffer_, i) = getK(i)
            /\ ViewOf(buffer_, i) \subseteq 0 .. buffer_.size - 1
            /\ \A j \in Queries \ {i} :
                 ViewOf(buffer_, i) \cap ViewOf(buffer_, j) = {}

\* The neighbours query q emits when its task runs alone on its own scratch.
RECURSIVE RunAlone(_, _, _)
RunAlone(q, l, h) ==
  IF l.pc = "loop"
  THEN LET step == NearestStep(q, l, h) IN RunAlone(q, step.local, step.heap)
  ELSE h

AloneOutput(q) ==
  IF NoNeighbors(getK(q)) THEN <<>> ELSE RunAlone(q, NearestLocals, <<>>)

\* C8. Scheduling independence: under any interleaving of the tasks of one
\* nearest traversal no scratch cell is accessed by two tasks, and the list
\* a query has emitted when it finishes is the one it emits running alone.
C8_SchedulingIndependence ==
  GeneralNearest =>
    /\ \A c \in DOMAIN touched : Cardinality(touched[c]) <= 1
    /\ \A q \in Queries : Finished(q) => out[q] = AloneOutput(q)

\* C9. Degenerate inputs: on an empty tree no kernel is launched and no
\* query (spatial or nearest) has a callback; a nearest query with k < 1 has
\* no callback, in the one-leaf kernel and in the general kernel, and its
\* task accesses no scratch cell.
C9_DegenerateInputs ==
  /\ bvh_.size = 0 =>
       /\ kernel = "none"
       /\ \A q \in Queries : out[q] = <<>> /\ local[q].pc = "idle"
  /\ tag = "nearest" =>
       \A q \in Queries :
         getK(q) < 1 =>
           /\ out[q] = <<>>
           /\ local[q].pc \in {"idle", "done"}
           /\ local[q].ret = 0
           /\ \A c \in DOMAIN touched : q \notin touched[c]

\* In the general kernel a query with k < 1 has returned while another
\* query of the batch has written to the scratch.
C9_Witness ==
  /\ GeneralNearest
  /\ \E q \in Queries :
       /\ getK(q) < 1
       /\ Finished(q)
       /\ \E c \in DOMAIN touched : touched[c] # {}

\* C10. One-leaf tree: a finished spatial query has the single callback
\* (predicate, 0) if the predicate holds on the root's volume and none
\* otherwise; a finished nearest query with k >= 1 has the single callback
\* (predicate, 0, distance to the root's volume) whatever k is; no scratch
\* is provisioned and no node is expanded.
C10_OneLeafTree ==
  bvh_.size = 1 =>
    /\ buffer_ = NoBuffer
    /\ kernel # "general"
    /\ \A q \in Queries :
         /\ visits[q].expanded = <<>>
         /\ Finished(q) =>
              IF tag = "spatial"
              THEN out[q] = IF predicate(q, getRoot) THEN << <<0>> >> ELSE <<>>
              ELSE getK(q) >= 1 => out[q] = << <<0, distance(q, getRoot)>> >>

\* A nearest query for several neighbours has finished on a one-leaf tree.
C10_Witness ==
  /\ bvh_.size = 1
  /\ tag = "nearest"
  /\ Finished(0)
  /\ getK(0) >= 2
  /\ Len(out[0]) = 1

NoRepeat(seq) == \A i, j \in DOMAIN seq : seq[i] = seq[j] => i = j

\* The loop of a general kernel is left exactly at its sentinel, and no node
\* is expanded twice.
LoopEndsAtSentinel ==
  kernel = "general" =>
    \A q \in Queries :
      /\ NoRepeat(visits[q].expanded)
      /\ IF tag = "spatial" /\ Ropes
         THEN /\ local[q].pc = "loop" => local[q].next # ROPE_SENTINEL
              /\ local[q].pc = "done" => local[q].next = ROPE_SENTINEL
         ELSE /\ local[q].pc = "loop" =>
                   /\ local[q].node # nullptr
                   /\ local[q].stack[1] = nullptr
                   /\ \A j \in 2 .. Len(local[q].stack) :
                        local[q].stack[j] # nullptr
              /\ local[q].pc \in {"emit", "done"} =>
                   /\ local[q].node = nullptr
                   /\ local[q].stack = <<>>

\* C11. Termination: on every tree of at least two leaves the task of a
\* query (stack kernel, rope kernel, nearest kernel) that has entered its
\* loop reaches its end; the stack kernels leave the loop exactly when the
\* sentinel pushed at the start is popped, the rope kernel when next is
\* ROPE_SENTINEL, and no internal node is expanded more than once.
C11_Termination ==
  /\ [](LoopEndsAtSentinel)
  /\ (local[0].pc = "loop") ~> (local[0].pc = "done")

\* The rope kernel has ended at the sentinel after expanding every internal
\* node of a tree of four leaves.
C11_Witness ==
  /\ GeneralSpatial /\ Ropes
  /\ bvh_.size = 4
  /\ Finished(0)
  /\ local[0].next = ROPE_SENTINEL
  /\ Len(visits[0].expanded) = 3
  /\ Len(visits[0].evaluated) = 7

\* The radius r that goes with the heap h of a query for k neighbours.
RadiusOf(h, k, r) ==
  /\ Len(h) < k => r = Infinity
  /\ Len(h) = k => /\ r = top(h)[2]
                   /\ \A j \in DOMAIN h : h[j][2] <= r

\* The heap and the radius of query q between iterations, and between the
\* tests of the two children of the node about to be expanded.
RadiusInvariant(q) ==
  LET l == local[q]
      h == HeapOf(buffer_, q, l.heap_size)
      child_left == bvh_.nodes[l.node].left_child
      st1 == Candidate([heap |-> h, radius |-> l.radius], child_left,
                       distance(q, child_left), getK(q))
  IN /\ RadiusOf(h, getK(q), l.radius)
     /\ l.distance_node < l.radius => RadiusOf(st1.heap, getK(q), st1.radius)

\* C12. Pruning radius: in every state of the nearest kernel the radius is
\* +infinity while the heap holds fewer than k entries and is the distance
\* of heap.top(), the largest stored, when it holds k; from one state of a
\* query to the next the radius never increases.
C12_PruningRadius ==
  /\ [](GeneralNearest =>
          \A q \in Queries : local[q].pc = "loop" => RadiusInvariant(q))
  /\ [][\A q \in Queries :
          local[q].pc \in {"loop", "emit"} => local'[q].radius <= local[q].radius]_vars

\* The heap of a query for two neighbours is full after its first leaf was
\* displaced from it: the radius is below the distance of that leaf.
C12_Witness ==
  /\ GeneralNearest
  /\ local[0].pc \in {"loop", "emit"}
  /\ getK(0) = 2
  /\ local[0].heap_size = 2
  /\ local[0].radius = 1
  /\ Len(visits[0].evaluated) >= 1
  /\ isLeaf(visits[0].evaluated[1])
  /\ distance(0, visits[0].evaluated[1]) = 2

\* C13. The radius is read again between the two sibling tests: every leaf
\* inserted into the heap, by push or popPush, was strictly nearer than the
\* radius in force when it was inserted (for a right child the radius as
\* the left child's insertion left it), hence strictly nearer than the
\* k-th distance of a full heap: a leaf at or beyond it displaces nothing.
C13_RadiusReread ==
  GeneralNearest =>
    \A q \in Queries :
      \A j \in DOMAIN visits[q].inserted :
        LET ins == visits[q].inserted[j]
        IN /\ ins.dist < ins.radius
           /\ ins.dist < ins.kth
           /\ isLeaf(ins.leaf)

\* Two successive insertions into a heap for one neighbour: the first
\* tightened the radius to its distance and the second, strictly nearer,
\* displaced it.
C13_Witness ==
  /\ GeneralNearest
  /\ getK(0) = 1
  /\ \E j \in 1 .. Len(visits[0].inserted) - 1 :
       LET a == visits[0].inserted[j]
           b == visits[0].inserted[j + 1]
       IN /\ a.radius = Infinity
          /\ b.radius = a.dist
          /\ b.kth = a.dist
          /\ b.dist < a.dist

\* The whole loop of query q as compiled for a, from the locals l and the
\* heap h: the sorted heap it ends with and the nodes it visited.
RECURSIVE RunOn(_, _, _, _, _)
RunOn(a, q, l, h, seen) ==
  IF l.pc = "loop"
  THEN LET step == NearestStepOn(a, q, l, h)
       IN RunOn(a, q, step.local, step.heap,
                [expanded |-> seen.expanded \o step.expanded,
                 evaluated |-> seen.evaluated \o step.evaluated,
                 inserted |-> seen.inserted \o step.inserted])
  ELSE [out |-> h, visits |-> seen]

OtherArch == CHOOSE a \in Archs : a # arch

\* C14. Omitting stack_distance preserves behaviour: the kernel that stores
\* the distance of each deferred node and the kernel that computes it again
\* when the node is popped visit the same nodes in the same order and emit
\* the same ordered list; in the storing kernel the two stacks have the
\* same depth and the distance kept with a node is distance(g, bv(node)).
C14_StackDistanceOmission ==
  GeneralNearest =>
    \A q \in Queries :
      /\ (arch = "host" /\ local[q].pc = "loop") =>
           /\ Len(local[q].stack_distance) = Len(local[q].stack)
           /\ \A j \in 2 .. Len(local[q].stack) :
                local[q].stack_distance[j] = distance(q, local[q].stack[j])
      /\ (local[q].pc = "loop" /\ local[q].node # getRoot) =>
           local[q].distance_node = distance(q, local[q].node)
      /\ (Finished(q) /\ getK(q) >= 1) =>
           LET other == RunOn(OtherArch, q, NearestLocalsOn(OtherArch), <<>>,
                              NoVisits)
           IN /\ out[q] = other.out
              /\ visits[q] = other.visits

\* The kernel without stack_distance has finished on the tree of four
\* leaves whose root has two internal children: one of them was deferred,
\* popped and, its distance computed again, expanded.
C14_Witness ==
  /\ GeneralNearest
  /\ arch = "cuda"
  /\ bvh_.size = 4
  /\ ~isLeaf(bvh_.nodes[getRoot].left_child)
  /\ ~isLeaf(getRightChild(getRoot))
  /\ Finished(0)
  /\ Len(visits[0].expanded) = 3
  /\ Len(out[0]) >= 2

\* The step of query q from a state of its loop: where the kernel goes when
\* a child of the node expanded is internal and within the radius.
DescentOrder(q) ==
  LET l == local[q]
      after == local'[q]
      child_left == bvh_.nodes[l.node].left_child
      child_right == getRightChild(l.node)
      Qualifies(c) ==
        /\ l.distance_node < l.radius
        /\ ~isLeaf(c)
        /\ distance(q, c) < after.radius
      other == IF after.node = child_left THEN child_right ELSE child_left
  IN (Qualifies(child_left) \/ Qualifies(child_right)) =>
       /\ after.node \in {child_left, child_right}
       /\ Qualifies(after.node)
       /\ Qualifies(other) => distance(q, after.node) <= distance(q, other)
       /\ (Qualifies(other) /\ distance(q, child_left) = distance(q, child_right)) =>
            after.node = child_left
       /\ after.distance_node = distance(q, after.node)
       /\ after.stack = IF Qualifies(other)
                        THEN Append(l.stack, other) ELSE l.stack
       /\ arch = "host" =>
            after.stack_distance =
              IF Qualifies(other)
              THEN Append(l.stack_distance, distance(q, other))
              ELSE l.stack_distance

\* C15. Nearest descent order: in an iteration where a child is an internal
\* node nearer than the radius, the next node is the qualifying child with
\* the smaller distance, the left one when both qualify at the same
\* distance; the other child is pushed, with its distance, exactly when
\* both qualify; distance_node is the distance of the child descended into.
C15_DescentOrder ==
  [][\A q \in Queries :
       (GeneralNearest /\ local[q].pc = "loop" /\ local'[q] # local[q]) =>
         DescentOrder(q)]_vars

\* The kernel has descended into the right child of the root, the nearer
\* of two qualifying children, and deferred the left one with its distance.
C15_Witness ==
  /\ GeneralNearest
  /\ arch = "host"
  /\ local[0].pc = "loop"
  /\ local[0].node = getRightChild(getRoot)
  /\ local[0].stack = <<nullptr, bvh_.nodes[getRoot].left_child>>
  /\ local[0].stack_distance = <<0, distance(0, bvh_.nodes[getRoot].left_child)>>
  /\ local[0].distance_node < distance(0, bvh_.nodes[getRoot].left_child)

\* The proper descendants of a node, and the first node after its subtree
\* in depth-first order (ROPE_SENTINEL when the subtree is the last).
Descendants(bvh, id) ==
  LET p == PosOf(bvh.shape, id)
  IN {NodeId(bvh.shape, r) : r \in p + 1 .. SubtreeEnd(bvh.shape, p)}

AfterSubtree(bvh, id) ==
  LET e == SubtreeEnd(bvh.shape, PosOf(bvh.shape, id))
  IN IF e = Len(bvh.shape) THEN ROPE_SENTINEL ELSE NodeId(bvh.shape, e + 1)

Rejected(q, node) == ~isLeaf(node) /\ ~predicate(q, node)

\* Below an internal node the predicate rejected, nothing was evaluated and
\* nothing reported.
RejectedSubtreesSkipped ==
  GeneralSpatial =>
    \A q \in Queries :
      \A j \in DOMAIN visits[q].evaluated :
        Rejected(q, visits[q].evaluated[j]) =>
          \A d \in Descendants(bvh_, visits[q].evaluated[j]) :
            /\ \A i \in DOMAIN visits[q].evaluated : visits[q].evaluated[i] # d
            /\ isLeaf(d) =>
                 \A i \in DOMAIN out[q] :
                   out[q][i] # <<getLeafPermutationIndex(d)>>

\* The iteration of the rope kernel that rejects an internal node goes to
\* the node after its subtree, or ends.
RopeSkipsSubtree(q) ==
  LET node == local[q].next
  IN (local[q].pc = "loop" /\ local'[q] # local[q] /\ Rejected(q, node)) =>
       /\ local'[q].next = AfterSubtree(bvh_, node)
       /\ local'[q].next = bvh_.nodes[node].rope
       /\ local'[q].pc = "done" <=> AfterSubtree(bvh_, node) = ROPE_SENTINEL

\* C16. Rejected subtrees are skipped exactly: in both spatial kernels,
\* once the predicate has rejected the volume of an internal node, it is
\* evaluated on no proper descendant of the node and the callback is invoked
\* for none; the rope kernel goes from the rejected node to its rope, the
\* first node after its subtree in depth-first order, or ends when the rope
\* is the sentinel.
C16_RejectedSubtrees ==
  /\ [](RejectedSubtreesSkipped)
  /\ [][\A q \in Queries : (GeneralSpatial /\ Ropes) => RopeSkipsSubtree(q)]_vars

\* The rope kernel has rejected an internal node other than the root, one of
\* whose leaves the predicate holds on, and gone on to the node's rope.
C16_Witness ==
  /\ GeneralSpatial /\ Ropes
  /\ \E j \in 1 .. Len(visits[0].evaluated) - 1 :
       LET node == visits[0].evaluated[j]
       IN /\ node # getRoot
          /\ Rejected(0, node)
          /\ visits[0].evaluated[j + 1] = bvh_.nodes[node].rope
          /\ \E d \in Descendants(bvh_, node) : isLeaf(d) /\ predicate(0, d)

\* The height of the tree: the edges from the root to the deepest leaf.
RECURSIVE HeightAt(_, _)
HeightAt(s, p) ==
  IF s[p] THEN 0
  ELSE LET left == HeightAt(s, p + 1)
           right == HeightAt(s, SubtreeEnd(s, p + 1) + 1)
       IN 1 + (IF left >= right THEN left ELSE right)

Height(bvh) == IF bvh.size = 0 THEN 0 ELSE HeightAt(bvh.shape, 1)

UsesStack == GeneralNearest \/ (GeneralSpatial /\ TwoChildren)

\* C17. Stack bounds: in the stack-based spatial kernel and in the nearest
\* kernel a pop finds at least the sentinel on the stack and the loop ends
\* at the pop of the sentinel; the entries on the stack, the sentinel
\* counted, never outnumber the height of the tree, so they fit the 64
\* slots when the height is at most 64.
C17_StackBounds ==
  UsesStack =>
    \A q \in Queries :
      /\ local[q].pc = "loop" =>
           /\ Len(local[q].stack) >= 1
           /\ local[q].stack[1] = nullptr
      /\ local[q].stack # <<>> =>
           LET height == Height(bvh_)
           IN /\ Len(local[q].stack) <= height
              /\ height <= StackCapacity =>
                   Len(local[q].stack) <= StackCapacity
      /\ local[q].pc \in {"emit", "done"} => local[q].stack = <<>>

\* The nearest kernel holds as many entries on its stack as the tree is
\* high, on a tree of height two: the sentinel and a deferred child.
C17_Witness ==
  /\ GeneralNearest
  /\ local[0].pc = "loop"
  /\ Height(bvh_) = 2
  /\ Len(local[0].stack) = 2

Internal(node) == node \in NodeIds(bvh_) /\ ~isLeaf(node)

\* C18. Only internal nodes are expanded: in the stack-based spatial kernel
\* and in the nearest kernel the loop variable node (the root, a child
\* descended into, a node popped other than the sentinel) is an internal
\* node, so no child is read from a leaf or from the sentinel and the
\* assertion of the rope getRightChild holds at every call.
C18_OnlyInternalExpanded ==
  UsesStack =>
    \A q \in Queries :
      /\ local[q].pc = "loop" =>
           /\ Internal(local[q].node)
           /\ \A j \in 2 .. Len(local[q].stack) : Internal(local[q].stack[j])
      /\ \A j \in DOMAIN visits[q].expanded : Internal(visits[q].expanded[j])

\* On the rope encoding the nearest kernel has popped a deferred node and
\* is about to read its children through getRightChild.
C18_Witness ==
  /\ GeneralNearest /\ Ropes
  /\ local[0].pc = "loop"
  /\ local[0].stack = <<nullptr>>
  /\ Len(visits[0].expanded) = 2
  /\ local[0].node = getRightChild(getRoot)
  /\ local[0].distance_node < local[0].radius

\* C19. The heap stays within its scratch: for a nearest query with k >= 1
\* the heap holds between 0 and k entries, the query's view has length k
\* (the assertion k == buffer.size()), an insertion is a push only into a
\* heap of fewer than k entries and a popPush only into one of k, and the
\* task accesses no cell outside the k entries of its view.
C19_HeapWithinScratch ==
  GeneralNearest =>
    \A q \in Queries :
      getK(q) >= 1 =>
        /\ local[q].heap_size \in 0 .. getK(q)
        /\ ViewSize(buffer_, q) = getK(q)
        /\ HeapCells(buffer_, q, local[q].heap_size) \subseteq ViewOf(buffer_, q)
        /\ \A c \in DOMAIN touched : q \in touched[c] => c \in ViewOf(buffer_, q)
        /\ \A j \in DOMAIN visits[q].inserted :
             LET ins == visits[q].inserted[j]
             IN IF ins.pushed THEN ins.size < getK(q) ELSE ins.size = getK(q)

\* In a batch, a query for two neighbours whose view does not start at the
\* beginning of the buffer has filled its heap by two pushes and then made
\* a popPush.
C19_Witness ==
  /\ GeneralNearest
  /\ \E q \in Queries :
       /\ getK(q) = 2
       /\ ViewBegin(buffer_, q) > 0
       /\ local[q].heap_size = 2
       /\ Len(visits[q].inserted) = 3
       /\ visits[q].inserted[2].pushed
       /\ ~visits[q].inserted[3].pushed

\* C20. No stale scratch is observed: the buffer is allocated without
\* initialization, and a nearest query reads, sorts and emits only entries
\* it has written itself: the heap, the sort and the output loop cover the
\* first heap.size entries of the view, all written by the query, so what
\* is emitted does not depend on what the buffer held at first.
C20_NoStaleScratch ==
  GeneralNearest =>
    \A q \in Queries :
      getK(q) >= 1 =>
        /\ \A c \in HeapCells(buffer_, q, local[q].heap_size) :
             buffer_.buffer_[c] \notin Garbage
        /\ \A c \in DOMAIN touched :
             q \in touched[c] => c \in HeapCells(buffer_, q, local[q].heap_size)
        /\ \A j \in DOMAIN out[q] : out[q][j] \notin Garbage
        /\ Finished(q) =>
             out[q] = RunOn(arch, q, NearestLocals, <<>>, NoVisits).out

\* A query for three neighbours has finished on a tree of two leaves: it
\* emitted two entries and the third cell of its view still holds what the
\* allocation left there.
C20_Witness ==
  /\ GeneralNearest
  /\ getK(0) = 3
  /\ bvh_.size = 2
  /\ Finished(0)
  /\ Len(out[0]) = 2
  /\ buffer_.buffer_[ViewBegin(buffer_, 0) + 2] \in Garbage

====
